---- MODULE Spec2Model ----
(***************************************************************************)
(* GaiaSentinel proof import: tools/import_from_stamped.py (reconciliation *)
(* of stamped documents with anchoring receipts) and                       *)
(* tools/extract_proofs_from_pdfs.py (proofs read from PDF footers).       *)
(*                                                                         *)
(* Text is modelled as sequences of one-character strings, so that the     *)
(* regular expressions and the str methods of the source are computed      *)
(* character by character.  A Python None is the one-element sequence      *)
(* None, which no text equals (its element is not a single character).     *)
(***************************************************************************)
EXTENDS Integers, Sequences, FiniteSets, TLC

\* ------------------------------------------------------------------ bounds
\* longest document stem drawn for the version resolver
MaxNameLen == 4
\* most anchor entries in a receipt drawn for the receipt normalizer
MaxAnchors == 3
\* most folders of stamped/ in one run
MaxGroups == 2
\* most runs that follow one another on the same proofs/ tree
MaxRuns == 2

\* ------------------------------------------------------------------ text
None == <<"None">>

Digits == {"0", "1", "2", "3", "4", "5", "6", "7", "8", "9"}

LowerLetters ==
  {"a", "b", "c", "d", "e", "f", "g", "h", "i", "j", "k", "l", "m",
   "n", "o", "p", "q", "r", "s", "t", "u", "v", "w", "x", "y", "z"}

UpperToLower ==
  ("A" :> "a") @@ ("B" :> "b") @@ ("C" :> "c") @@ ("D" :> "d") @@
  ("E" :> "e") @@ ("F" :> "f") @@ ("G" :> "g") @@ ("H" :> "h") @@
  ("I" :> "i") @@ ("J" :> "j") @@ ("K" :> "k") @@ ("L" :> "l") @@
  ("M" :> "m") @@ ("N" :> "n") @@ ("O" :> "o") @@ ("P" :> "p") @@
  ("Q" :> "q") @@ ("R" :> "r") @@ ("S" :> "s") @@ ("T" :> "t") @@
  ("U" :> "u") @@ ("V" :> "v") @@ ("W" :> "w") @@ ("X" :> "x") @@
  ("Y" :> "y") @@ ("Z" :> "z")

\* str.lower(), one character
LowerChar(c) == IF c \in DOMAIN UpperToLower THEN UpperToLower[c] ELSE c

\* str.lower()
Lower(s) == [i \in 1..Len(s) |-> LowerChar(s[i])]

\* str.replace(old, new) for one-character old and new
Replace(s, old, new) == [i \in 1..Len(s) |-> IF s[i] = old THEN new ELSE s[i]]

\* s[i:] (1-based, inclusive)
From(s, i) == SubSeq(s, i, Len(s))

\* str.endswith
EndsWith(s, suf) ==
  /\ Len(suf) <= Len(s)
  /\ SubSeq(s, Len(s) - Len(suf) + 1, Len(s)) = suf

\* the `in` operator on two str
Contains(s, sub) ==
  \E i \in 1..(Len(s) + 1) :
    /\ i + Len(sub) - 1 <= Len(s)
    /\ SubSeq(s, i, i + Len(sub) - 1) = sub

\* all sequences over alphabet A of length at most n
RECURSIVE SeqsUpTo(_, _)
SeqsUpTo(A, n) ==
  IF n = 0 THEN {<< >>}
  ELSE LET shorter == SeqsUpTo(A, n - 1)
       IN  shorter \cup {Append(s, c) : s \in {t \in shorter : Len(t) = n - 1}, c \in A}

\* ------------------------------------------------------- slugify (57-61)
IsSlugChar(c) == c \in LowerLetters \cup Digits

\* re.sub(r"[^a-z0-9]+", "-", s): every maximal run of other characters
\* becomes one dash
RECURSIVE DashRuns(_, _)
DashRuns(s, i) ==
  IF i > Len(s) THEN << >>
  ELSE IF IsSlugChar(s[i]) THEN <<s[i]>> \o DashRuns(s, i + 1)
  ELSE IF i > 1 /\ ~IsSlugChar(s[i - 1]) THEN DashRuns(s, i + 1)
  ELSE <<"-">> \o DashRuns(s, i + 1)

\* str.strip("-")
RECURSIVE StripDashes(_)
StripDashes(s) ==
  IF s = << >> THEN s
  ELSE IF Head(s) = "-" THEN StripDashes(Tail(s))
  ELSE IF s[Len(s)] = "-" THEN StripDashes(SubSeq(s, 1, Len(s) - 1))
  ELSE s

\* slugify: lower, (accent table: the identity on the ASCII alphabet used
\* here), runs of non [a-z0-9] to one dash, dashes stripped at both ends
slugify(s) == StripDashes(DashRuns(Lower(s), 1))

\* ------------------------------------------ parse_version_from_name (63-67)
\* [_\-\s]
VersionDelims == {"_", "-", " "}

\* \d+ is greedy: the last index of the digit run that holds index i
RECURSIVE DigitsEnd(_, _)
DigitsEnd(s, i) ==
  IF i + 1 <= Len(s) /\ s[i + 1] \in Digits THEN DigitsEnd(s, i + 1) ELSE i

\* (?:\.\d+)* is greedy: the last index consumed after index e
RECURSIVE SegmentsEnd(_, _)
SegmentsEnd(s, e) ==
  IF e + 2 <= Len(s) /\ s[e + 1] = "." /\ s[e + 2] \in Digits
  THEN SegmentsEnd(s, DigitsEnd(s, e + 2))
  ELSE e

\* v\d+(?:\.\d+)* with re.I, tried at index p: its last index, 0 for no match
TokenEndAt(s, p) ==
  IF p + 1 <= Len(s) /\ s[p] \in {"v", "V"} /\ s[p + 1] \in Digits
  THEN SegmentsEnd(s, DigitsEnd(s, p + 1))
  ELSE 0

\* re.search: the attempt at offset k (0-based) tries ^ first (only at
\* offset 0), then a delimiter at that offset; the first offset that
\* matches wins.  The result is <<first, last>> of group 1, <<0, 0>> for None.
RECURSIVE SearchVersion(_, _)
SearchVersion(s, k) ==
  IF k >= Len(s) THEN <<0, 0>>
  ELSE IF k = 0 /\ TokenEndAt(s, 1) # 0 THEN <<1, TokenEndAt(s, 1)>>
  ELSE IF s[k + 1] \in VersionDelims /\ TokenEndAt(s, k + 2) # 0
       THEN <<k + 2, TokenEndAt(s, k + 2)>>
  ELSE SearchVersion(s, k + 1)

parse_version_from_name(name) ==
  LET Group1(m) == IF m[1] = 0 THEN None
                   ELSE Replace(Lower(SubSeq(name, m[1], m[2])), ".", "-")
  IN  Group1(SearchVersion(name, 0))

\* --------------------------------------------- build_slug_version (191-201)
\* a mutation of build_slug_version: the folder label is asked first
build_slug_version_label_first(base_slug, pdf_name, folder_label, anchored_utc) ==
  LET Version(fromName, fromLabel) ==
        IF fromLabel # None THEN fromLabel
        ELSE IF fromName # None THEN fromName
        ELSE <<"v", "1", "-", "0">>
  IN  base_slug \o <<"_">> \o
        Version(parse_version_from_name(pdf_name), parse_version_from_name(folder_label))

build_slug_version(base_slug, pdf_name, folder_label, anchored_utc) ==
  LET Version(fromName, fromLabel) ==
        IF fromName # None THEN fromName
        ELSE IF fromLabel # None THEN fromLabel
        ELSE <<"v", "1", "-", "0">>
  IN  base_slug \o <<"_">> \o
        Version(parse_version_from_name(pdf_name), parse_version_from_name(folder_label))

\* ------------------------------------------------- collect_folder (161-162)
\* re.sub(r"(?:^|[_\-\s])v\d+(?:\.\d+)*$", "", label, flags=re.I): the first
\* offset from which delimiter and token reach the end of the label; the
\* label is cut there
RECURSIVE StripVersionSuffix(_, _)
StripVersionSuffix(s, k) ==
  IF k >= Len(s) THEN s
  ELSE IF k = 0 /\ TokenEndAt(s, 1) = Len(s) THEN << >>
  ELSE IF s[k + 1] \in VersionDelims /\ TokenEndAt(s, k + 2) = Len(s)
       THEN SubSeq(s, 1, k)
  ELSE StripVersionSuffix(s, k + 1)

\* base_slug of a folder label
base_slug_of(folder_label) == slugify(StripVersionSuffix(folder_label, 0))

\* ------------------------------------------------------- norm_iso (69-76)
\* A timestamp text is modelled as T<digit> followed by nothing (a naive
\* ISO time), by Z or by + (an offset); any other text does not parse.
IsIsoText(v) ==
  /\ Len(v) \in {2, 3}
  /\ v[1] = "T"
  /\ v[2] \in Digits
  /\ Len(v) = 3 => v[3] \in {"Z", "+"}

\* falsy or unparseable gives None; strftime prints the fields of the parsed
\* time and a literal Z
norm_iso(dt_like) ==
  IF dt_like = None \/ dt_like = << >> THEN None
  ELSE IF IsIsoText(dt_like) THEN <<"T", dt_like[2], "Z">>
  ELSE None

\* ------------------------------------------- parse_woleet_receipt (99-143)
\* truth value of a JSON text (None and "" are falsy)
Truthy(v) == v # None /\ v # << >>

\* truth value of a JSON number, written by its digits (None and 0 are falsy)
TruthyNumber(v) == v # None /\ v # <<"0">>

\* Python's `a or b`
Or(a, b) == IF Truthy(a) THEN a ELSE b
OrNumber(a, b) == IF TruthyNumber(a) THEN a ELSE b

\* ("btc", "bitcoin", "opreturn", "op-return", "op_return")
LedgerTypes ==
  { <<"b", "t", "c">>,
    <<"b", "i", "t", "c", "o", "i", "n">>,
    <<"o", "p", "r", "e", "t", "u", "r", "n">>,
    <<"o", "p", "-", "r", "e", "t", "u", "r", "n">>,
    <<"o", "p", "_", "r", "e", "t", "u", "r", "n">> }

\* data.get("anchors") or data.get("anchor") or [], a dict taken as a
\* one-element list.  A value is [kind, items]: kind "none" (absent),
\* "list", or "dict" (items holds the one entry).
AnchorsTruthy(v) == v.kind # "none" /\ v.items # << >>

AnchorList(data) ==
  IF AnchorsTruthy(data.anchors) THEN data.anchors.items
  ELSE IF AnchorsTruthy(data.anchor) THEN data.anchor.items
  ELSE << >>

\* a mutation of ScanAnchors: a value once taken is kept
RECURSIVE ScanAnchorsFirstWins(_, _, _)
ScanAnchorsFirstWins(anchors, i, acc) ==
  IF i > Len(anchors) THEN acc
  ELSE LET a == anchors[i]
       IN  IF Lower(a.type) \in LedgerTypes
           THEN ScanAnchorsFirstWins(anchors, i + 1,
                  [txid |-> Or(acc.txid, Or(a.txId, a.txid)),
                   block_height |-> OrNumber(acc.block_height, a.blockHeight),
                   block_time |->
                     Or(acc.block_time, Or(a.time, Or(a.timestamp, a.confirmedAt)))])
           ELSE ScanAnchorsFirstWins(anchors, i + 1, acc)

\* the loop over the anchor entries (117-122), from entry i on
RECURSIVE ScanAnchors(_, _, _)
ScanAnchors(anchors, i, acc) ==
  IF i > Len(anchors) THEN acc
  ELSE LET a == anchors[i]
       IN  IF Lower(a.type) \in LedgerTypes
           THEN ScanAnchors(anchors, i + 1,
                  [txid |-> Or(a.txId, Or(a.txid, acc.txid)),
                   block_height |-> OrNumber(a.blockHeight, acc.block_height),
                   block_time |->
                     Or(a.time, Or(a.timestamp, Or(a.confirmedAt, acc.block_time)))])
           ELSE ScanAnchors(anchors, i + 1, acc)

parse_woleet_receipt(data) ==
  LET LowerIfTruthy(v) == IF Truthy(v) THEN Lower(v) ELSE v
      Result(found) ==
        [proof_id |-> Or(data.id, Or(data.proof_id, data.proofId)),
         sha256 |-> LowerIfTruthy(Or(Or(data.targetHash, Or(data.hash, << >>)), None)),
         txid |-> LowerIfTruthy(Or(found.txid, Or(data.txid, Or(data.txId, None)))),
         block_height |-> found.block_height,
         anchored_utc |->
           Or(norm_iso(found.block_time),
              Or(norm_iso(data.blockTime),
                 Or(norm_iso(data.anchoredOn), norm_iso(data.created)))),
         link |-> Or(data.receiptUrl, Or(data.url, None))]
  IN  Result(ScanAnchors(AnchorList(data), 1,
                         [txid |-> None, block_height |-> None, block_time |-> None]))

\* ------------------------------------------------------- files and hashes
\* A file of the input tree is [name, bytes, readable, mtime, size]: bytes is
\* one hexadecimal digit that stands for the whole content, readable tells
\* whether open() succeeds, mtime and size are what stat() returns.
File(name, bytes, readable, mtime, size) ==
  [name |-> name, bytes |-> bytes, readable |-> readable, mtime |-> mtime,
   size |-> size]

\* {64} in HEX64 (38); also the length of a hexdigest
HashLen == 64

HexChars == Digits \cup {"a", "b", "c", "d", "e", "f"}

\* HEX64.match(t): ^[a-f0-9]{64}$ with re.I
HEX64(t) ==
  /\ Len(t) = HashLen
  /\ \A i \in 1..Len(t) : LowerChar(t[i]) \in HexChars

\* sha256_file(p).hexdigest() of a readable file: 64 lower-case hexadecimal
\* digits, different for different contents
sha256_file(f) == [i \in 1..HashLen |-> f.bytes]

\* Path.suffix and Path.stem
LastDot(name) ==
  LET dots == {i \in 1..Len(name) : name[i] = "."}
  IN  IF dots = {} THEN 0 ELSE CHOOSE i \in dots : \A j \in dots : j <= i

HasSuffix(name) == LastDot(name) > 1 /\ LastDot(name) < Len(name)
Suffix(name) == IF HasSuffix(name) THEN From(name, LastDot(name)) ELSE << >>
Stem(name) == IF HasSuffix(name) THEN SubSeq(name, 1, LastDot(name) - 1) ELSE name

\* ------------------------------------------------------- base_of (147-150)
W_attestation == <<"a", "t", "t", "e", "s", "t", "a", "t", "i", "o", "n">>
W_receipt == <<"r", "e", "c", "e", "i", "p", "t">>
W_woleet == <<"w", "o", "l", "e", "e", "t">>

\* re.sub(r"(?i)(?:_)?(attestation|receipt)$", "", stem): the word at the end
\* of the stem is cut, with the underscore before it if there is one
base_of(stem) ==
  LET words == {w \in {W_attestation, W_receipt} : EndsWith(Lower(stem), w)}
  IN  IF words = {} THEN stem
      ELSE LET w == CHOOSE x \in words : TRUE
               cut == Len(stem) - Len(w)
           IN  IF cut >= 1 /\ stem[cut] = "_"
               THEN SubSeq(stem, 1, cut - 1)
               ELSE SubSeq(stem, 1, cut)

\* ------------------------------------------------ collect_folder (152-181)
IsJson(f) == Lower(Suffix(f.name)) = <<".", "j", "s", "o", "n">>

IsPdf(f) == Lower(Suffix(f.name)) = <<".", "p", "d", "f">>

NamesAnnex(f) ==
  \/ Contains(Lower(f.name), W_receipt)
  \/ Contains(Lower(f.name), W_attestation)

IsAttestation(f) == ~IsJson(f) /\ IsPdf(f) /\ NamesAnnex(f)

IsPdfCanon(f) == ~IsJson(f) /\ IsPdf(f) /\ ~NamesAnnex(f)

IsScreenshot(f) ==
  /\ ~IsJson(f) /\ ~IsPdf(f)
  /\ Lower(Suffix(f.name)) \in
       {<<".", "p", "n", "g">>, <<".", "j", "p", "g">>, <<".", "j", "p", "e", "g">>}
  /\ Contains(Lower(f.name), W_woleet) \/ NamesAnnex(f)

\* folder is [label, files], files in the order of sorted(folder.iterdir())
collect_folder(folder) ==
  [folder_label |-> folder.label,
   base_slug |-> base_slug_of(folder.label),
   jsons |-> SelectSeq(folder.files, IsJson),
   pdf_canons |-> SelectSeq(folder.files, IsPdfCanon),
   attestations |-> SelectSeq(folder.files, IsAttestation),
   screenshots |-> SelectSeq(folder.files, IsScreenshot)]

\* ---------------------------------------- pick_attestation_for (183-189)
RECURSIVE FirstAttestation(_, _, _)
FirstAttestation(pref, attestations, i) ==
  IF i > Len(attestations) THEN 0
  ELSE LET low == Lower(attestations[i].name)
       IN  IF Contains(low, pref) \/ Contains(low, W_attestation) \/ Contains(low, W_receipt)
           THEN i
           ELSE FirstAttestation(pref, attestations, i + 1)

\* the index of the attestation chosen for the document, 0 for None
pick_attestation_for(pdf, attestations) ==
  LET pref == Lower(IF Lower(Suffix(pdf.name)) = <<".", "p", "d", "f">>
                    THEN Stem(pdf.name) ELSE pdf.name)
  IN  FirstAttestation(pref, attestations, 1)

\* ------------------------------------------------ the indexes (287-299)
\* pdf_index: hexdigest -> index of the document in pdf_canons; a document
\* that cannot be read is left out (and warned about), a later document with
\* the same digest replaces an earlier one
RECURSIVE build_pdf_index(_, _)
build_pdf_index(pdf_canons, n) ==
  IF n = 0 THEN << >>
  ELSE LET WithDoc(before, digest) ==
             IF pdf_canons[n].readable
             THEN [h \in DOMAIN before \cup {digest} |->
                     IF h = digest THEN n ELSE before[h]]
             ELSE before
       IN  WithDoc(build_pdf_index(pdf_canons, n - 1), sha256_file(pdf_canons[n]))

\* the warnings of the try/except at 290-293, in the order of the documents
HashWarnings(pdf_canons) ==
  LET bad == SelectSeq(pdf_canons, LAMBDA f : ~f.readable)
  IN  [i \in 1..Len(bad) |-> <<"unhashable", bad[i].name>>]

\* pdf_by_base: lower-cased base name -> the indexes of its documents, in order
build_pdf_by_base(pdf_canons) ==
  LET baseAt(i) == Lower(base_of(Stem(pdf_canons[i].name)))
      bases == {baseAt(i) : i \in 1..Len(pdf_canons)}
      idx == [i \in 1..Len(pdf_canons) |-> i]
  IN  [b \in bases |-> SelectSeq(idx, LAMBDA i : baseAt(i) = b)]

\* dict.get(key, default)
Get(dict, key, default) == IF key \in DOMAIN dict THEN dict[key] ELSE default

\* ---------------------------------------------------- the matcher (312-337)
\* a mutation of OldestFirst: the sort is reversed
NewestFirst(pdf_canons, candidates) ==
  LET cs == {candidates[k] : k \in 1..Len(candidates)}
  IN  CHOOSE c \in cs :
        \A d \in cs :
          \/ pdf_canons[c].mtime > pdf_canons[d].mtime
          \/ pdf_canons[c].mtime = pdf_canons[d].mtime /\ c >= d

\* sorted(candidates, key=lambda p: (p.stat().st_mtime, p.name))[0]: names are
\* told apart by their place in pdf_canons, which is sorted by name
OldestFirst(pdf_canons, candidates) ==
  LET cs == {candidates[k] : k \in 1..Len(candidates)}
  IN  CHOOSE c \in cs :
        \A d \in cs :
          \/ pdf_canons[c].mtime < pdf_canons[d].mtime
          \/ pdf_canons[c].mtime = pdf_canons[d].mtime /\ c <= d

\* the loop at 325-328: <<"match", c>> for the first candidate whose digest
\* is the target, <<"raise", c>> when candidate c cannot be read on the way,
\* <<"none", 0>> at the end of the list
RECURSIVE CandidateByHash(_, _, _, _)
CandidateByHash(pdf_canons, candidates, target, k) ==
  IF k > Len(candidates) THEN <<"none", 0>>
  ELSE LET c == candidates[k]
       IN  IF ~pdf_canons[c].readable THEN <<"raise", c>>
           ELSE IF Lower(sha256_file(pdf_canons[c])) = target THEN <<"match", c>>
           ELSE CandidateByHash(pdf_canons, candidates, target, k + 1)

\* a mutation of MatchDocument: a receipt that nothing matches takes the
\* first document of the folder
MatchFirstWhenNone(group, jname, target) ==
  LET Among(candidates) ==
        IF candidates # << >>
        THEN IF Len(candidates) = 1 THEN <<"match", candidates[1]>>
             ELSE <<"match", OldestFirst(group.pdf_canons, candidates)>>
        ELSE IF Truthy(target) /\ HEX64(target) /\ target \in DOMAIN group.pdf_index
             THEN <<"match", group.pdf_index[target]>>
             ELSE <<"match", 1>>
  IN  Among(Get(group.pdf_by_base, Lower(base_of(Stem(jname))), << >>))

\* a mutation of MatchDocument: the name is never asked, the digest decides
MatchByHashOnly(group, jname, target) ==
  IF Truthy(target) /\ HEX64(target) /\ target \in DOMAIN group.pdf_index
  THEN <<"match", group.pdf_index[target]>>
  ELSE <<"unmatched", 0>>

\* a mutation of MatchDocument: the hash index is never asked when no
\* document bears the name
MatchByNameOnly(group, jname, target) ==
  LET Among(candidates) ==
        IF candidates # << >>
        THEN <<"match", OldestFirst(group.pdf_canons, candidates)>>
        ELSE <<"unmatched", 0>>
  IN  Among(Get(group.pdf_by_base, Lower(base_of(Stem(jname))), << >>))

\* <<"match", index in pdf_canons>>, <<"unmatched", 0>> (the continue at
\* 337), or <<"raise", index>> (sha256_file raised at 326)
MatchDocument(group, jname, target) ==
  LET wellFormed == Truthy(target) /\ HEX64(target)
      Refined(candidates, byHash) ==
        IF byHash[1] = "none"
        THEN <<"match", OldestFirst(group.pdf_canons, candidates)>>
        ELSE byHash
      Among(candidates) ==
        IF candidates # << >>
        THEN IF Len(candidates) = 1 THEN <<"match", candidates[1]>>
             ELSE Refined(candidates,
                          IF wellFormed
                          THEN CandidateByHash(group.pdf_canons, candidates, target, 1)
                          ELSE <<"none", 0>>)
        ELSE IF wellFormed /\ target \in DOMAIN group.pdf_index
             THEN <<"match", group.pdf_index[target]>>
             ELSE <<"unmatched", 0>>
  IN  Among(Get(group.pdf_by_base, Lower(base_of(Stem(jname))), << >>))

\* ------------------------------------------------- the records (354-430)
\* str.split("_", 1)[1] if "_" in slug_version else "v1-0"
VersionOf(slug_version) ==
  LET us == {i \in 1..Len(slug_version) : slug_version[i] = "_"}
  IN  IF us = {} THEN <<"v", "1", "-", "0">>
      ELSE From(slug_version, (CHOOSE i \in us : \A j \in us : i <= j) + 1)

\* str(pdf_match.relative_to(ROOT))
StampedPath(folder_label, name) == <<"stamped", folder_label, name>>

\* proof_json (360-394); mimetypes.guess_type gives application/pdf for
\* every document, which all end in .pdf
ProofJson(group, pdf, jname, info, calc_sha, slug_version) ==
  [title |-> group.folder_label,
   slug |-> group.base_slug,
   version |-> VersionOf(slug_version),
   filename |-> StampedPath(group.folder_label, pdf.name),
   mimetype |-> "application/pdf",
   size_bytes |-> pdf.size,
   sha256 |-> calc_sha,
   txid |-> info.txid,
   block_height |-> info.block_height,
   block_time_utc |-> info.anchored_utc,
   proof_id |-> info.proof_id,
   link |-> info.link,
   anchored_utc |-> info.anchored_utc,
   notes |-> jname]

\* a mutation of MappingRow: the hash the receipt declares is recorded when
\* it is well formed
MappingRowTrustsReceipt(group, pdf, info, calc_sha, slug_version) ==
  [slug |-> slug_version,
   filename |-> StampedPath(group.folder_label, pdf.name),
   sha256 |-> IF Truthy(info.sha256) /\ HEX64(info.sha256) THEN info.sha256 ELSE calc_sha,
   bitcoin_txid |-> Or(info.txid, << >>),
   woleet_proof_id |-> Or(info.proof_id, << >>),
   anchored_utc |-> Or(info.anchored_utc, << >>),
   canonical_uri |-> << >>,
   title |-> group.folder_label,
   version |-> VersionOf(slug_version),
   mimetype |-> "application/pdf",
   size_bytes |-> pdf.size]

\* the row appended to rows (410-422)
MappingRow(group, pdf, info, calc_sha, slug_version) ==
  [slug |-> slug_version,
   filename |-> StampedPath(group.folder_label, pdf.name),
   sha256 |-> calc_sha,
   bitcoin_txid |-> Or(info.txid, << >>),
   woleet_proof_id |-> Or(info.proof_id, << >>),
   anchored_utc |-> Or(info.anchored_utc, << >>),
   canonical_uri |-> << >>,
   title |-> group.folder_label,
   version |-> VersionOf(slug_version),
   mimetype |-> "application/pdf",
   size_bytes |-> pdf.size]

\* the line appended to index_lines (423-430)
IndexLine(group, pdf, info, calc_sha, slug_version) ==
  [slug |-> slug_version,
   filename |-> StampedPath(group.folder_label, pdf.name),
   sha256 |-> calc_sha,
   bitcoin_txid |-> Or(info.txid, << >>),
   woleet_proof_id |-> Or(info.proof_id, << >>),
   anchored_utc |-> Or(info.anchored_utc, << >>)]

\* ------------------------------------- ensure_dir, copy_or_link (78-95)
ensure_dir(dirs, p, isDry) == IF isDry THEN dirs ELSE dirs \cup {p}

\* A file written under an output directory is << >> while it does not
\* exist.  copy_or_link gives [file, raised]: the destination afterwards and
\* whether shutil.copy2 raised (the source cannot be read).
copy_or_link(src, srcPath, dst, useSymlink, isDry) ==
  IF isDry THEN [file |-> dst, raised |-> FALSE]
  ELSE IF dst # << >> THEN [file |-> dst, raised |-> FALSE]
  ELSE IF useSymlink THEN [file |-> <<"link", srcPath>>, raised |-> FALSE]
  ELSE IF src.readable THEN [file |-> <<"copy", srcPath>>, raised |-> FALSE]
  ELSE [file |-> dst, raised |-> TRUE]

\* --------------------------------------------- write_proof_set (203-241)
\* an output directory that does not exist yet
NoDir ==
  [proof |-> << >>, checksums |-> << >>, receipt_json |-> << >>,
   receipt_pdf |-> << >>, shot |-> << >>]

DirOf(disk, outdir) == IF outdir \in DOMAIN disk THEN disk[outdir] ELSE NoDir

Put(disk, outdir, dir) ==
  [d \in DOMAIN disk \cup {outdir} |-> IF d = outdir THEN dir ELSE disk[d]]

\* a mutation of write_proof_set: the dry-run test is inverted
write_proof_set_dry_inverted(disk, outdir, proof_json, pdf_path, receipt, receipt_path, attestation, attestation_path, shots, shot_path, useSymlink, isDry) ==
  IF ~isDry THEN [disk |-> disk, raised |-> FALSE]
  ELSE [disk |-> Put(disk, outdir,
                     [DirOf(disk, outdir) EXCEPT
                        !.proof = <<proof_json>>,
                        !.checksums = <<proof_json.sha256, pdf_path>>]),
        raised |-> FALSE]

\* [disk, raised]: proofs/by-doc afterwards, and whether a copy raised.  The
\* files are written in the order of the source (proof.json, checksums.txt,
\* the receipt, the attestation, the screenshot), so what was written before
\* the exception stays.  attestation and shots are sequences of at most one
\* file (att_pdf, screenshots[0]).
write_proof_set(disk, outdir, proof_json, pdf_path, receipt, receipt_path, attestation, attestation_path, shots, shot_path, useSymlink, isDry) ==
  LET Shot(d2, raised2) ==
        IF shots = << >> \/ raised2 THEN [dir |-> d2, raised |-> raised2]
        ELSE LET Copied(c) == [dir |-> [d2 EXCEPT !.shot = c.file], raised |-> c.raised]
             IN  Copied(copy_or_link(shots[1], shot_path, d2.shot, useSymlink, isDry))
      Attestation(d1, raised1) ==
        IF attestation = << >> \/ raised1 THEN Shot(d1, raised1)
        ELSE LET Copied(c) == Shot([d1 EXCEPT !.receipt_pdf = c.file], c.raised)
             IN  Copied(copy_or_link(attestation[1], attestation_path, d1.receipt_pdf,
                                     useSymlink, isDry))
      Receipt(d0) ==
        LET Copied(c) == Attestation([d0 EXCEPT !.receipt_json = c.file], c.raised)
        IN  Copied(copy_or_link(receipt, receipt_path, d0.receipt_json, useSymlink, isDry))
      Done(r) == [disk |-> Put(disk, outdir, r.dir), raised |-> r.raised]
  IN  IF isDry THEN [disk |-> disk, raised |-> FALSE]
      ELSE Done(Receipt([DirOf(disk, outdir) EXCEPT
                           !.proof = <<proof_json>>,
                           !.checksums = <<proof_json.sha256, pdf_path>>]))

\* a mutation of WriteAggregate: the file is opened for appending
WriteAggregateAppends(old, records) == old \o records

\* open(..., "w") and the records written (436-442)
WriteAggregate(old, records) == records

\* ------------------------------------------------------------------ state
VARIABLES
  pc,          \* where the process is: "idle", "folders" (the loop over the
               \* folders of stamped/), "receipts" (the loop over the receipts
               \* of a folder), "pdfs" (the loop of the extract tool),
               \* "exited", "fatal" (sys.exit(1)), "crashed" (uncaught exception)
  prog,        \* the tool that runs: "import" or "extract"
  dry,         \* args.dry_run
  symlink,     \* args.symlink
  nrun,        \* the runs started so far
  last,        \* place, in the sorted list, of the last folder (or PDF) taken
  scanned,     \* folders (or PDFs) taken in this run
  cur,         \* what collect_folder returned, with pdf_index and pdf_by_base
  ji,          \* place of the next receipt in cur.jsons
  jpath,       \* the receipt of the last iteration (None before the first)
  target,      \* info["sha256"] of the last iteration that parsed a receipt
  pdf_match,   \* its matched document, a place in cur.pdf_canons, 0 for None
  ended,       \* how the last iteration ended: "none", "unreadable" (continue
               \* at 307), "unmatched" (continue at 337), "appended" (430),
               \* "raised"
  rows,        \* the mapping rows of this run
  index_lines, \* the index lines of this run
  warnings,    \* what warn() printed in this run
  rootDirs,    \* which of proofs/ and proofs/by-doc/ exist
  byDoc,       \* proofs/by-doc/: directory name -> its files
  mapping,     \* proofs/mapping.csv: its rows, << >> when there is no file
  index,       \* proofs/index.jsonl: its lines, << >> when there is no file
  vname,       \* version resolver: the document file name
  vlabel,      \* version resolver: the folder label
  vbase,       \* version resolver: base_slug of the label, None before collect
  vslug,       \* version resolver: the composite slug, None before it is built
  rdata,       \* receipt normalizer: the raw receipt (the parsed JSON object)
  rinfo        \* receipt normalizer: << >>, then <<the normalized receipt>>

procVars == <<pc, prog, dry, symlink, nrun, last, scanned, cur, ji, jpath, target,
              pdf_match, ended, rows, index_lines, warnings>>
diskVars == <<rootDirs, byDoc, mapping, index>>
runVars == <<procVars, diskVars>>
versionVars == <<vname, vlabel, vbase, vslug>>
receiptVars == <<rdata, rinfo>>
vars == <<runVars, versionVars, receiptVars>>

\* a receipt that holds no key at all
EmptyReceipt ==
  [id |-> None, proof_id |-> None, proofId |-> None,
   targetHash |-> None, hash |-> None,
   anchors |-> [kind |-> "none", items |-> << >>],
   anchor |-> [kind |-> "none", items |-> << >>],
   txid |-> None, txId |-> None,
   blockTime |-> None, anchoredOn |-> None, created |-> None,
   receiptUrl |-> None, url |-> None]

\* no folder collected yet
NoGroup ==
  [folder_label |-> << >>, base_slug |-> << >>, jsons |-> << >>,
   pdf_canons |-> << >>, attestations |-> << >>, screenshots |-> << >>,
   pdf_index |-> << >>, pdf_by_base |-> << >>]

\* a process that has not started, on an empty proofs/ tree
RunIdle ==
  /\ pc = "idle"
  /\ prog = "import"
  /\ dry = FALSE
  /\ symlink = FALSE
  /\ nrun = 0
  /\ last = 0
  /\ scanned = 0
  /\ cur = NoGroup
  /\ ji = 1
  /\ jpath = None
  /\ target = None
  /\ pdf_match = 0
  /\ ended = "none"
  /\ rows = << >>
  /\ index_lines = << >>
  /\ warnings = << >>
  /\ rootDirs = {}
  /\ byDoc = << >>
  /\ mapping = << >>
  /\ index = << >>

\* the version resolver at rest
VersionIdle ==
  /\ vname = << >>
  /\ vlabel = << >>
  /\ vbase = None
  /\ vslug = None

\* the receipt normalizer at rest
ReceiptIdle ==
  /\ rdata = EmptyReceipt
  /\ rinfo = << >>

\* ------------------------------------------------------------ the inputs
\* the folders stamped/ may hold, in the order of sorted(key=name.lower())
FolderLabels == <<<<"R", "e", "p", "o", "r", "t">>, <<"R", "e", "p", "o", "r", "t", "_", "v", "1", ".", "0">>, <<"R", "e", "p", "o", "r", "t", "_", "V", "2">>>>

\* the files a folder may hold
F_A_json == File(<<"A", ".", "j", "s", "o", "n">>, "0", TRUE, 1, 1)
F_A_receipt_json == File(<<"A", "_", "r", "e", "c", "e", "i", "p", "t", ".", "j", "s", "o", "n">>, "0", TRUE, 1, 1)
F_B_json == File(<<"B", "_", "v", "2", ".", "j", "s", "o", "n">>, "0", TRUE, 1, 1)
F_X_json == File(<<"X", ".", "j", "s", "o", "n">>, "0", TRUE, 1, 1)
F_A_pdf == File(<<"A", ".", "p", "d", "f">>, "1", TRUE, 2, 10)
F_A_pdf_unreadable == File(<<"A", ".", "p", "d", "f">>, "1", FALSE, 2, 10)
F_B_pdf == File(<<"B", "_", "v", "2", ".", "p", "d", "f">>, "2", TRUE, 1, 20)
F_a_pdf_older == File(<<"a", ".", "p", "d", "f">>, "a", TRUE, 1, 30)
F_a_pdf_same == File(<<"a", ".", "p", "d", "f">>, "a", TRUE, 2, 30)
F_A_attestation == File(<<"A", "_", "a", "t", "t", "e", "s", "t", "a", "t", "i", "o", "n", ".", "p", "d", "f">>, "7", TRUE, 1, 5)
F_A_attestation_unreadable == File(<<"A", "_", "a", "t", "t", "e", "s", "t", "a", "t", "i", "o", "n", ".", "p", "d", "f">>, "7", FALSE, 1, 5)
F_screenshot == File(<<"w", "o", "l", "e", "e", "t", ".", "p", "n", "g">>, "8", TRUE, 1, 6)

\* the folder contents offered to a run, each in the order of
\* sorted(folder.iterdir())
FolderPool ==
  { <<F_A_json, F_A_pdf>>,
    <<F_A_pdf, F_A_attestation, F_A_receipt_json, F_screenshot>>,
    <<F_A_pdf, F_X_json>>,
    <<F_A_json, F_A_pdf, F_B_pdf, F_X_json>>,
    <<F_A_pdf, F_B_json, F_B_pdf>>,
    <<F_A_json, F_A_pdf, F_a_pdf_older>>,
    <<F_A_json, F_A_pdf, F_A_receipt_json, F_a_pdf_same>>,
    <<F_A_json, F_A_pdf_unreadable, F_B_pdf, F_X_json>>,
    <<F_A_json, F_A_pdf, F_A_attestation_unreadable, F_A_receipt_json>>,
    <<F_A_pdf_unreadable, F_X_json>>,
    <<F_A_json, F_A_pdf_unreadable, F_a_pdf_older>>,
    <<F_A_json>>,
    <<F_A_pdf, F_A_attestation>> }

\* the folder contents offered to the runs that follow one another
SmallFolderPool ==
  { <<F_A_pdf, F_A_attestation, F_A_receipt_json, F_B_json, F_B_pdf>>,
    <<F_A_pdf, F_X_json>> }

\* what reading a receipt may give: [parses, data]
HashText(digit) == [i \in 1..HashLen |-> digit]

ReceiptPool ==
  { [parses |-> FALSE, data |-> EmptyReceipt],
    [parses |-> TRUE, data |-> EmptyReceipt],
    [parses |-> TRUE, data |-> [EmptyReceipt EXCEPT !.targetHash = <<"b", "a", "d">>]],
    [parses |-> TRUE,
     data |-> [EmptyReceipt EXCEPT
                 !.targetHash = HashText("1"),
                 !.id = <<"p", "1">>,
                 !.anchors = [kind |-> "list",
                              items |-> <<[type |-> <<"b", "t", "c">>,
                                           txId |-> <<"A", "a">>, txid |-> None,
                                           blockHeight |-> <<"5">>,
                                           time |-> <<"T", "1", "Z">>,
                                           timestamp |-> None,
                                           confirmedAt |-> None]>>]]],
    [parses |-> TRUE, data |-> [EmptyReceipt EXCEPT !.hash = HashText("2")]],
    [parses |-> TRUE, data |-> [EmptyReceipt EXCEPT !.targetHash = HashText("A")]] }

SmallReceiptPool ==
  { [parses |-> TRUE, data |-> EmptyReceipt],
    [parses |-> TRUE, data |-> [EmptyReceipt EXCEPT !.hash = HashText("2")]] }

\* ---------------------------------------------------- the import run: main
\* a new process: the locals are fresh, the disk is what the runs before left
FreshProcess ==
  /\ last' = 0
  /\ scanned' = 0
  /\ cur' = NoGroup
  /\ ji' = 1
  /\ jpath' = None
  /\ target' = None
  /\ pdf_match' = 0
  /\ ended' = "none"
  /\ rows' = << >>
  /\ index_lines' = << >>
  /\ warnings' = << >>

\* main, 246-272: the arguments, the test of stamped/, the two ensure_dir
LaunchImport(limit, links) ==
  /\ pc \in {"idle", "exited", "fatal", "crashed"}
  /\ nrun < limit
  /\ nrun' = nrun + 1
  /\ prog' = "import"
  /\ \E isDry, stampedExists \in BOOLEAN :
     \E useSymlink \in links :
       /\ dry' = isDry
       /\ symlink' = useSymlink
       /\ IF stampedExists
          THEN /\ pc' = "folders"
               /\ rootDirs' = ensure_dir(ensure_dir(rootDirs, "proofs", isDry),
                                         "proofs/by-doc", isDry)
          ELSE /\ pc' = "fatal"
               /\ rootDirs' = rootDirs
  /\ FreshProcess
  /\ UNCHANGED <<byDoc, mapping, index, versionVars, receiptVars>>

\* one turn of the loop over the folders up to the loop over its receipts
\* (277-299): collect_folder, the two early continues, the two indexes
ScanFolder(folders) ==
  /\ pc = "folders"
  /\ prog = "import"
  /\ scanned < MaxGroups
  /\ \E j \in (last + 1)..Len(FolderLabels) :
     \E files \in folders :
     \E g \in {collect_folder([label |-> FolderLabels[j], files |-> files])} :
       LET skipped == g.jsons = << >> \/ g.pdf_canons = << >>
       IN  /\ last' = j
           /\ cur' = [folder_label |-> g.folder_label,
                      base_slug |-> g.base_slug,
                      jsons |-> g.jsons,
                      pdf_canons |-> g.pdf_canons,
                      attestations |-> g.attestations,
                      screenshots |-> g.screenshots,
                      pdf_index |-> IF skipped THEN << >>
                                    ELSE build_pdf_index(g.pdf_canons, Len(g.pdf_canons)),
                      pdf_by_base |-> IF skipped THEN << >>
                                      ELSE build_pdf_by_base(g.pdf_canons)]
           /\ warnings' = IF g.jsons = << >>
                          THEN Append(warnings, <<"no-json", g.folder_label>>)
                          ELSE IF g.pdf_canons = << >>
                          THEN Append(warnings, <<"no-pdf", g.folder_label>>)
                          ELSE warnings \o HashWarnings(g.pdf_canons)
           /\ pc' = IF skipped THEN "folders" ELSE "receipts"
  /\ scanned' = scanned + 1
  /\ ji' = 1
  /\ jpath' = None
  /\ target' = None
  /\ pdf_match' = 0
  /\ ended' = "none"
  /\ UNCHANGED <<prog, dry, symlink, nrun, rows, index_lines, diskVars,
                 versionVars, receiptVars>>

\* One turn of the loop over the receipts (302-430) on receipt content c, as
\* the run would do it with dry-run set to isDry: the values of the variables
\* it changes.
Iteration(c, isDry) ==
  LET jfile == cur.jsons[ji]
      jname == jfile.name
      goesOn == IF ji = Len(cur.jsons) THEN "folders" ELSE "receipts"
      same == [pc |-> goesOn, ended |-> ended, target |-> target,
               pdf_match |-> pdf_match, warnings |-> warnings, rows |-> rows,
               index_lines |-> index_lines, byDoc |-> byDoc]
      \* 396-430: write_proof_set, then the two appends
      Written(info, at, pdf, calc_sha, slug_version, warned, written) ==
        IF written.raised
        THEN [same EXCEPT !.pc = "crashed", !.ended = "raised",
                          !.target = info.sha256, !.pdf_match = at,
                          !.warnings = warned, !.byDoc = written.disk]
        ELSE [same EXCEPT !.ended = "appended",
                          !.target = info.sha256, !.pdf_match = at,
                          !.warnings = warned, !.byDoc = written.disk,
                          !.rows = Append(rows, MappingRow(cur, pdf, info, calc_sha,
                                                           slug_version)),
                          !.index_lines = Append(index_lines,
                                                 IndexLine(cur, pdf, info, calc_sha,
                                                           slug_version))]
      \* 344-394: the warning, the slug, the attestation, proof_json
      Assembled(info, at, pdf, calc_sha, slug_version, att) ==
        Written(info, at, pdf, calc_sha, slug_version,
                IF Truthy(info.sha256) /\ HEX64(info.sha256) /\ calc_sha # info.sha256
                THEN Append(warnings, <<"mismatch", pdf.name>>)
                ELSE warnings,
                write_proof_set(
                  byDoc, slug_version,
                  ProofJson(cur, pdf, jname, info, calc_sha, slug_version),
                  StampedPath(cur.folder_label, pdf.name),
                  jfile, StampedPath(cur.folder_label, jname),
                  IF att = 0 THEN << >> ELSE <<cur.attestations[att]>>,
                  IF att = 0 THEN << >>
                  ELSE StampedPath(cur.folder_label, cur.attestations[att].name),
                  IF cur.screenshots = << >> THEN << >> ELSE <<cur.screenshots[1]>>,
                  IF cur.screenshots = << >> THEN << >>
                  ELSE StampedPath(cur.folder_label, cur.screenshots[1].name),
                  symlink, isDry))
      \* 339-342: stat() and sha256_file of the document retained
      Retained(info, at, pdf) ==
        IF ~pdf.readable
        THEN [same EXCEPT !.pc = "crashed", !.ended = "raised",
                          !.target = info.sha256, !.pdf_match = at]
        ELSE Assembled(info, at, pdf, sha256_file(pdf),
                       build_slug_version(cur.base_slug, pdf.name, cur.folder_label,
                                          info.anchored_utc),
                       pick_attestation_for(pdf, cur.attestations))
      \* 312-337
      Matched(info, m) ==
        IF m[1] = "unmatched"
        THEN [same EXCEPT !.ended = "unmatched", !.target = info.sha256,
                          !.pdf_match = 0,
                          !.warnings = Append(warnings, <<"unmatched", jname>>)]
        ELSE IF m[1] = "raise"
        THEN [same EXCEPT !.pc = "crashed", !.ended = "raised",
                          !.target = info.sha256, !.pdf_match = 0]
        ELSE Retained(info, m[2], cur.pdf_canons[m[2]])
      \* 309-310
      Parsed(info) == Matched(info, MatchDocument(cur, jname, info.sha256))
  IN  IF ~c.parses
      THEN [same EXCEPT !.ended = "unreadable",
                        !.warnings = Append(warnings, <<"unreadable", jname>>)]
      ELSE Parsed(parse_woleet_receipt(c.data))

ProcessReceipt(contents) ==
  /\ pc = "receipts"
  /\ prog = "import"
  /\ \E c \in contents :
     \E next \in {Iteration(c, dry)} :
           /\ pc' = next.pc
           /\ ended' = next.ended
           /\ target' = next.target
           /\ pdf_match' = next.pdf_match
           /\ warnings' = next.warnings
           /\ rows' = next.rows
           /\ index_lines' = next.index_lines
           /\ byDoc' = next.byDoc
  /\ jpath' = cur.jsons[ji].name
  /\ ji' = ji + 1
  /\ UNCHANGED <<prog, dry, symlink, nrun, last, scanned, cur, rootDirs, mapping,
                 index, versionVars, receiptVars>>

\* the end of main (432-447), when no folder is left
Finish ==
  /\ pc = "folders"
  /\ prog = "import"
  /\ pc' = "exited"
  /\ warnings' = (IF scanned = 0 THEN Append(warnings, <<"no-folder", << >> >>)
                  ELSE warnings)
                 \o (IF rows = << >> THEN << <<"nothing-indexed", << >> >> >> ELSE << >>)
  /\ mapping' = IF rows # << >> /\ ~dry THEN WriteAggregate(mapping, rows) ELSE mapping
  /\ index' = IF rows # << >> /\ ~dry THEN WriteAggregate(index, index_lines) ELSE index
  /\ UNCHANGED <<prog, dry, symlink, nrun, last, scanned, cur, ji, jpath, target,
                 pdf_match, ended, rows, index_lines, rootDirs, byDoc,
                 versionVars, receiptVars>>

\* ------------------------------ the extract run: extract_proofs_from_pdfs
\* The footer text of a document, as the three expressions of the tool see
\* it: its words (RE_HEX64 has \b on both sides), and what RE_UUID and RE_ISO
\* find first (None when they find nothing).
Footer(words, uuid, iso) == [words |-> words, uuid |-> uuid, iso |-> iso]

\* for h in hexes[1:]: the first one that differs from sha256, else None
RECURSIVE FirstOther(_, _, _)
FirstOther(hexes, i, sha256) ==
  IF i > Len(hexes) THEN None
  ELSE IF Lower(hexes[i]) # sha256 THEN Lower(hexes[i])
  ELSE FirstOther(hexes, i + 1, sha256)

\* parse_proof (39-68)
parse_proof(text) ==
  LET Found(hexes) ==
        [sha256 |-> IF hexes # << >> THEN Lower(hexes[1]) ELSE None,
         bitcoin_txid |-> IF hexes # << >> THEN FirstOther(hexes, 2, Lower(hexes[1]))
                          ELSE None,
         woleet_proof_id |-> IF text.uuid # None THEN Lower(text.uuid) ELSE None,
         anchored_utc |-> text.iso]
  IN  Found(SelectSeq(text.words, HEX64))

\* str(rel): the path of the document under the root
DocsPath(name) == <<"docs", name>>

\* the json.dump at 103-136, the fields that come from the input
ExtractProofJson(pdf, proof, calc_sha) ==
  [title |-> Stem(pdf.name),
   slug |-> slugify(Stem(pdf.name)),
   filename |-> DocsPath(pdf.name),
   mimetype |-> "application/pdf",
   size_bytes |-> pdf.size,
   sha256 |-> calc_sha,
   txid |-> proof.bitcoin_txid,
   block_time_utc |-> proof.anchored_utc,
   proof_id |-> proof.woleet_proof_id,
   anchored_utc |-> proof.anchored_utc]

\* rows.append (143-155)
ExtractRow(pdf, proof, calc_sha) ==
  [slug |-> slugify(Stem(pdf.name)),
   filename |-> DocsPath(pdf.name),
   sha256 |-> calc_sha,
   bitcoin_txid |-> proof.bitcoin_txid,
   woleet_proof_id |-> proof.woleet_proof_id,
   anchored_utc |-> proof.anchored_utc,
   canonical_uri |-> << >>,
   title |-> Stem(pdf.name),
   version |-> << >>,
   mimetype |-> "application/pdf",
   size_bytes |-> pdf.size]

\* index_lines.append (158-165)
ExtractIndexLine(pdf, proof, calc_sha) ==
  [slug |-> slugify(Stem(pdf.name)),
   filename |-> DocsPath(pdf.name),
   sha256 |-> calc_sha,
   bitcoin_txid |-> proof.bitcoin_txid,
   woleet_proof_id |-> proof.woleet_proof_id,
   anchored_utc |-> proof.anchored_utc]

\* what sorted(DOCS.rglob("*.pdf")) may give
DocsPool ==
  { << >>,
    <<F_A_pdf>>,
    <<F_A_pdf, F_B_pdf>>,
    <<F_A_pdf, F_a_pdf_older>>,
    <<F_A_pdf_unreadable, F_B_pdf>> }

\* the footers a document may carry
FooterPool ==
  { Footer(<< >>, None, None),
    Footer(<<HashText("1"), <<"T", "x">>, HashText("1"), HashText("B")>>,
           <<"U", "1">>, <<"T", "1", "Z">>),
    Footer(<<HashText("2")>>, None, None),
    Footer(<<HashText("A"), HashText("a")>>, None, None) }

\* main, 78-89: the two mkdir, the list of the documents, the exit when
\* there is none
LaunchExtract ==
  /\ pc = "idle"
  /\ nrun' = nrun + 1
  /\ prog' = "extract"
  /\ dry' = FALSE
  /\ symlink' = FALSE
  /\ rootDirs' = rootDirs \cup {"proofs", "proofs/by-doc"}
  /\ \E pdfs \in DocsPool :
       /\ cur' = [NoGroup EXCEPT !.pdf_canons = pdfs]
       /\ pc' = IF pdfs = << >> THEN "exited" ELSE "pdfs"
  /\ last' = 0
  /\ scanned' = 0
  /\ ji' = 1
  /\ jpath' = None
  /\ target' = None
  /\ pdf_match' = 0
  /\ ended' = "none"
  /\ rows' = << >>
  /\ index_lines' = << >>
  /\ warnings' = << >>
  /\ UNCHANGED <<byDoc, mapping, index, versionVars, receiptVars>>

\* one turn of the loop over the documents (91-165)
ExtractPdf(footers) ==
  /\ pc = "pdfs"
  /\ prog = "extract"
  /\ last < Len(cur.pdf_canons)
  /\ last' = last + 1
  /\ scanned' = scanned + 1
  /\ pdf_match' = last + 1
  /\ \E text \in footers :
     \E pdf \in {cur.pdf_canons[last + 1]} :
     \E proof \in {parse_proof(text)} :
     \E calc_sha \in {sha256_file(pdf)} :
       IF ~pdf.readable
       THEN /\ pc' = "crashed"
            /\ ended' = "raised"
            /\ UNCHANGED <<target, warnings, byDoc, rows, index_lines>>
       ELSE /\ pc' = "pdfs"
            /\ ended' = "appended"
            /\ target' = proof.sha256
            /\ warnings' = IF proof.sha256 # None /\ proof.sha256 # calc_sha
                           THEN Append(warnings, <<"mismatch", pdf.name>>)
                           ELSE warnings
            /\ byDoc' = Put(byDoc, slugify(Stem(pdf.name)),
                            [DirOf(byDoc, slugify(Stem(pdf.name))) EXCEPT
                               !.proof = <<ExtractProofJson(pdf, proof, calc_sha)>>,
                               !.checksums = <<calc_sha, DocsPath(pdf.name)>>])
            /\ rows' = Append(rows, ExtractRow(pdf, proof, calc_sha))
            /\ index_lines' = Append(index_lines, ExtractIndexLine(pdf, proof, calc_sha))
  /\ UNCHANGED <<prog, dry, symlink, nrun, cur, ji, jpath, rootDirs, mapping, index,
                 versionVars, receiptVars>>

\* the end of main (167-178)
ExtractFinish ==
  /\ pc = "pdfs"
  /\ prog = "extract"
  /\ last = Len(cur.pdf_canons)
  /\ pc' = "exited"
  /\ mapping' = WriteAggregate(mapping, rows)
  /\ index' = WriteAggregate(index, index_lines)
  /\ UNCHANGED <<prog, dry, symlink, nrun, last, scanned, cur, ji, jpath, target,
                 pdf_match, ended, rows, index_lines, warnings, rootDirs, byDoc,
                 versionVars, receiptVars>>

Init ==
  /\ RunIdle
  /\ VersionIdle
  /\ ReceiptIdle

\* one run of either tool on an empty proofs/ tree
Next ==
  \/ LaunchImport(1, BOOLEAN)
  \/ ScanFolder(FolderPool)
  \/ ProcessReceipt(ReceiptPool)
  \/ Finish
  \/ LaunchExtract
  \/ ExtractPdf(FooterPool)
  \/ ExtractFinish

Spec == Init /\ [][Next]_vars

\* runs of the import tool that follow one another on the same proofs/ tree,
\* the annexes copied (the mode of the annexes changes no directory name and
\* no aggregate)
NextRerun ==
  \/ LaunchImport(MaxRuns, {FALSE})
  \/ ScanFolder(SmallFolderPool)
  \/ ProcessReceipt(SmallReceiptPool)
  \/ Finish

SpecRerun == Init /\ [][NextRerun]_vars

\* ------------------------------------------- version resolver, on its own
VersionAlphabet == {"v", "V", "1", ".", "_", "-", "r"}

DotPdf == <<".", "p", "d", "f">>

\* folder labels offered to the version resolver
VersionLabels ==
  { << >>,
    <<"R", "e", "p">>,
    <<"R", "e", "p", "_", "V", "2", ".", "1">>,
    <<"R", "e", "p", "v", "3">>,
    <<"v", "1", ".", "0">>,
    <<"R", " ", "v", "2", "-", "x">> }

InitVersion ==
  /\ vname \in {stem \o DotPdf : stem \in SeqsUpTo(VersionAlphabet, MaxNameLen)}
  /\ vlabel \in VersionLabels
  /\ vbase = None
  /\ vslug = None
  /\ ReceiptIdle
  /\ RunIdle

\* collect_folder's base slug for the label
CollectBase ==
  /\ vbase = None
  /\ vbase' = base_slug_of(vlabel)
  /\ UNCHANGED <<vname, vlabel, vslug, receiptVars, runVars>>

\* build_slug_version for the matched document of that folder
ResolveVersion ==
  /\ vbase # None
  /\ vslug = None
  /\ vslug' = build_slug_version(vbase, vname, vlabel, None)
  /\ UNCHANGED <<vname, vlabel, vbase, receiptVars, runVars>>

NextVersion == CollectBase \/ ResolveVersion

SpecVersion == InitVersion /\ [][NextVersion]_vars

\* ------------------------------------------- receipt normalizer, on its own
\* anchor entries offered to the normalizer
Anchor(type, txId, txid, blockHeight, time, timestamp, confirmedAt) ==
  [type |-> type, txId |-> txId, txid |-> txid, blockHeight |-> blockHeight,
   time |-> time, timestamp |-> timestamp, confirmedAt |-> confirmedAt]

AnchorPool ==
  { Anchor(<<"b", "t", "c">>, <<"A", "a">>, None, <<"5">>, <<"T", "1", "Z">>, None, None),
    Anchor(<<"B", "T", "C">>, None, <<"b", "b">>, <<"7">>, None, <<"T", "2">>, None),
    Anchor(<<"B", "i", "t", "c", "o", "i", "n">>, None, None, <<"0">>, <<"x">>, None,
           <<"T", "3", "+">>),
    Anchor(<<"e", "t", "h">>, <<"e", "e">>, None, <<"9">>, <<"T", "4", "Z">>, None, None),
    Anchor(<<"o", "p", "_", "r", "e", "t", "u", "r", "n">>, <<"c", "c">>, None, None,
           None, None, None),
    Anchor(<< >>, <<"d", "d">>, None, <<"8">>, <<"T", "5", "Z">>, None, None) }

AnchorLists ==
  UNION {[1..n -> AnchorPool] : n \in 0..MaxAnchors}

\* the forms under which a receipt carries its anchor entries
AnchorForms(items) ==
  { [anchors |-> [kind |-> "list", items |-> items],
     anchor |-> [kind |-> "none", items |-> << >>]],
    [anchors |-> [kind |-> "none", items |-> << >>],
     anchor |-> [kind |-> "list", items |-> items]] }
  \cup
  IF Len(items) = 1
  THEN {[anchors |-> [kind |-> "dict", items |-> items],
         anchor |-> [kind |-> "list", items |-> <<Anchor(<<"b", "t", "c">>, <<"f", "f">>,
                                                    None, None, None, None, None)>>]]}
  ELSE {}

InitReceipt ==
  /\ \E items \in AnchorLists :
     \E form \in AnchorForms(items) :
     \E top \in {None, <<"T", "O", "P">>} :
     \E blockTime \in {None, <<"T", "6", "Z">>} :
       rdata = [EmptyReceipt EXCEPT !.anchors = form.anchors,
                                    !.anchor = form.anchor,
                                    !.txId = top,
                                    !.blockTime = blockTime,
                                    !.created = <<"T", "7">>]
  /\ rinfo = << >>
  /\ VersionIdle
  /\ RunIdle

\* parse_woleet_receipt on the receipt
Normalize ==
  /\ rinfo = << >>
  /\ rinfo' = <<parse_woleet_receipt(rdata)>>
  /\ UNCHANGED <<rdata, versionVars, runVars>>

NextReceipt == Normalize

SpecReceipt == InitReceipt /\ [][NextReceipt]_vars

\* --------------------------------------------------------------- claim C8
\* s[p..e] is a version token: v or V, then dot-separated groups of digits
IsVersionToken(s, p, e) ==
  /\ 1 <= p /\ p < e /\ e <= Len(s)
  /\ s[p] \in {"v", "V"}
  /\ \A i \in (p + 1)..e : s[i] \in Digits \cup {"."}
  /\ s[p + 1] \in Digits
  /\ s[e] \in Digits
  /\ \A i \in (p + 1)..(e - 1) : ~(s[i] = "." /\ s[i + 1] = ".")

\* ... that stands at the start of s or after a delimiter
TokenStarts(s) ==
  {p \in 1..Len(s) :
     /\ p = 1 \/ s[p - 1] \in VersionDelims
     /\ \E e \in 1..Len(s) : IsVersionToken(s, p, e)}

Min(S) == CHOOSE x \in S : \A y \in S : x <= y
Max(S) == CHOOSE x \in S : \A y \in S : x >= y

\* the version token found in s: the first one, as long as it goes
FoundToken(s) ==
  LET p == Min(TokenStarts(s))
      e == Max({x \in 1..Len(s) : IsVersionToken(s, p, x)})
  IN  SubSeq(s, p, e)

HasToken(s) == TokenStarts(s) # {}

DefaultToken == <<"v", "1", ".", "0">>

ChosenToken(name, label) ==
  IF HasToken(name) THEN FoundToken(name)
  ELSE IF HasToken(label) THEN FoundToken(label)
  ELSE DefaultToken

\* C8: the composite slug is the base slug, an underscore, and the version
\* token of the document name, else of the folder label, else v1.0,
\* lower-cased and with dots replaced by dashes.
C8_VersionResolved ==
  vslug # None =>
    vslug = vbase \o <<"_">> \o Replace(Lower(ChosenToken(vname, vlabel)), ".", "-")

\* a resolved slug whose version came from the label, in upper case and dotted
C8_Witness ==
  /\ vslug # None
  /\ ~HasToken(vname)
  /\ HasToken(vlabel)
  /\ FoundToken(vlabel) # Replace(Lower(FoundToken(vlabel)), ".", "-")

\* --------------------------------------------------------------- claim C9
\* the entries of the receipt whose type tag is of the ledger family
Qualifying(items) == {i \in 1..Len(items) : Lower(items[i].type) \in LedgerTypes}

\* what one entry carries for each resolved field
EntryTxid(a) == IF Truthy(a.txId) THEN a.txId ELSE a.txid
EntryHeight(a) == a.blockHeight
EntryTime(a) ==
  IF Truthy(a.time) THEN a.time
  ELSE IF Truthy(a.timestamp) THEN a.timestamp
  ELSE a.confirmedAt

CarryTxid(items) == {i \in Qualifying(items) : Truthy(EntryTxid(items[i]))}
CarryHeight(items) == {i \in Qualifying(items) : TruthyNumber(EntryHeight(items[i]))}
CarryTime(items) == {i \in Qualifying(items) : Truthy(EntryTime(items[i]))}

\* the top-level fallbacks
TopTxid(data) ==
  IF Truthy(data.txid) THEN data.txid
  ELSE IF Truthy(data.txId) THEN data.txId
  ELSE None

TopTime(data) ==
  IF norm_iso(data.blockTime) # None THEN norm_iso(data.blockTime)
  ELSE IF norm_iso(data.anchoredOn) # None THEN norm_iso(data.anchoredOn)
  ELSE norm_iso(data.created)

LowerOrNone(v) == IF Truthy(v) THEN Lower(v) ELSE v

\* the resolved fields when, field by field, entry Pick(S) of the entries S
\* that carry the field decides
ResolvedBy(data, Pick(_)) ==
  LET items == AnchorList(data)
      tx == CarryTxid(items)
      ht == CarryHeight(items)
      tm == CarryTime(items)
      time == IF tm = {} THEN None ELSE norm_iso(EntryTime(items[Pick(tm)]))
  IN  [txid |-> IF tx = {} THEN LowerOrNone(TopTxid(data))
                ELSE Lower(EntryTxid(items[Pick(tx)])),
       block_height |-> IF ht = {} THEN None ELSE EntryHeight(items[Pick(ht)]),
       anchored_utc |-> IF time # None THEN time ELSE TopTime(data)]

Resolved(info) ==
  [txid |-> info.txid, block_height |-> info.block_height,
   anchored_utc |-> info.anchored_utc]

\* C9 as stated: the transaction id, block height and anchoring time are
\* those of the first qualifying anchor entry that carries them; a later
\* qualifying entry never overrides them.
C9_FirstEntryWins ==
  rinfo # << >> => Resolved(rinfo[1]) = ResolvedBy(rdata, Min)

\* C9 amended: field by field, the last qualifying anchor entry that carries
\* a value decides (a later qualifying entry overrides an earlier one);
\* entries of an unrecognized type contribute nothing; without a qualifying
\* value the top-level keys decide.
C9_LastEntryWins ==
  rinfo # << >> => Resolved(rinfo[1]) = ResolvedBy(rdata, Max)

\* a normalized receipt with two qualifying entries that carry different
\* transaction ids, heights and times, and an unrecognized entry after them
C9_Witness ==
  /\ rinfo # << >>
  /\ LET items == AnchorList(rdata)
     IN  /\ Len(items) = 3
         /\ Qualifying(items) = {1, 2}
         /\ CarryTxid(items) = {1, 2}
         /\ CarryHeight(items) = {1, 2}
         /\ CarryTime(items) = {1, 2}
         /\ EntryTxid(items[1]) # EntryTxid(items[2])
         /\ Truthy(EntryTxid(items[3]))

\* ------------------------------------------------ what the claims speak of
Last(seq) == seq[Len(seq)]

WellFormed(h) == Truthy(h) /\ HEX64(h)

\* the composite slugs read back from an aggregate file
SlugsOf(records) == {records[i].slug : i \in 1..Len(records)}

\* no slug in two records
UniqueSlugs(records) ==
  \A i, k \in 1..Len(records) : records[i].slug = records[k].slug => i = k

\* the document the last turn of the loop retained
MatchedDocument == cur.pdf_canons[pdf_match]

\* the last turn of the loop read its receipt (or footer), retained a
\* document and came to its end without an exception
Assembled == pdf_match # 0 /\ ended \in {"unmatched", "appended"}

\* ---------------------------------------------------------------- claim C1
\* C1: whenever a turn of either tool retains a document and comes to its
\* end, a row, an index line and (unless the run is dry) a proof record and a
\* checksum line are there, and each carries the hash computed from the
\* document retained, whatever the receipt (or the footer) declares; when the
\* declared hash is well formed and differs, the last warning says so.
C1_RecordedHashIsComputed ==
  Assembled =>
    /\ ended = "appended"
    /\ rows # << >> /\ index_lines # << >>
    /\ Last(rows).sha256 = sha256_file(MatchedDocument)
    /\ Last(index_lines).sha256 = sha256_file(MatchedDocument)
    /\ Last(rows).filename[Len(Last(rows).filename)] = MatchedDocument.name
    /\ ~dry =>
         /\ Last(rows).slug \in DOMAIN byDoc
         /\ byDoc[Last(rows).slug].proof = <<byDoc[Last(rows).slug].proof[1]>>
         /\ byDoc[Last(rows).slug].proof[1].sha256 = sha256_file(MatchedDocument)
         /\ byDoc[Last(rows).slug].checksums[1] = sha256_file(MatchedDocument)
    /\ (WellFormed(target) /\ target # sha256_file(MatchedDocument)) =>
         /\ warnings # << >>
         /\ Last(warnings) = <<"mismatch", MatchedDocument.name>>

\* C1 happens: a record was appended for a receipt that declares a well-formed
\* hash other than the one computed
C1_Witness ==
  /\ prog = "import"
  /\ Assembled
  /\ ~dry
  /\ WellFormed(target)
  /\ target # sha256_file(MatchedDocument)
  /\ Last(rows).sha256 = sha256_file(MatchedDocument)

\* ---------------------------------------------------------------- claim C2
\* the last turn normalized a receipt in a folder that holds exactly one
\* document and exactly one receipt
OneDocumentOneReceipt ==
  /\ prog = "import"
  /\ jpath # None
  /\ ended \in {"unmatched", "appended", "raised"}
  /\ Len(cur.pdf_canons) = 1
  /\ Len(cur.jsons) = 1

\* the normalized base of the receipt's file name is that of the document
SameBase(jname, pdf) ==
  Lower(base_of(Stem(jname))) = Lower(base_of(Stem(pdf.name)))

\* the receipt declares the well-formed hash the document has
DeclaresHashOf(pdf) ==
  WellFormed(target) /\ pdf.readable /\ target = sha256_file(pdf)

\* C2 as stated: with one document (that can be hashed) and one receipt, the
\* receipt is paired with the document whatever its file name and its
\* declared hash.
C2_AlwaysPaired ==
  (OneDocumentOneReceipt /\ cur.pdf_canons[1].readable) =>
    pdf_match = 1 /\ ended # "unmatched"

\* C2 amended: with one document and one receipt, the receipt is paired with
\* the document exactly when its normalized base is the document's (whatever
\* hash it declares) or it declares the well-formed hash computed from the
\* document; otherwise it is left unmatched.
C2_PairedByNameOrHash ==
  OneDocumentOneReceipt =>
    IF SameBase(jpath, cur.pdf_canons[1]) \/ DeclaresHashOf(cur.pdf_canons[1])
    THEN pdf_match = 1 /\ ended # "unmatched"
    ELSE pdf_match = 0 /\ ended = "unmatched"

\* C2 happens: paired by the name alone, against a declared hash that is
\* well formed and is not the document's
C2_Witness ==
  /\ OneDocumentOneReceipt
  /\ SameBase(jpath, cur.pdf_canons[1])
  /\ WellFormed(target)
  /\ ~DeclaresHashOf(cur.pdf_canons[1])
  /\ pdf_match = 1
  /\ ended = "appended"

\* ---------------------------------------------------------------- claim C3
\* the last turn normalized a receipt in a folder of two readable documents
\* with distinct hashes, and the receipt declares the hash of document b
DeclaresSecondOfTwo(a, b) ==
  /\ prog = "import"
  /\ jpath # None
  /\ ended \in {"unmatched", "appended", "raised"}
  /\ Len(cur.pdf_canons) = 2
  /\ {a, b} = {1, 2}
  /\ cur.pdf_canons[a].readable /\ cur.pdf_canons[b].readable
  /\ sha256_file(cur.pdf_canons[a]) # sha256_file(cur.pdf_canons[b])
  /\ DeclaresHashOf(cur.pdf_canons[b])

\* C3 as stated: the receipt that declares the hash of B is matched to B,
\* whatever its file name.
C3_HashDecides ==
  \A a, b \in {1, 2} : DeclaresSecondOfTwo(a, b) => pdf_match = b

\* C3 amended: the receipt that declares the hash of B is matched to B,
\* unless its normalized base is A's and not B's: then it is matched to A.
C3_NameBeforeHash ==
  \A a, b \in {1, 2} :
    DeclaresSecondOfTwo(a, b) =>
      IF SameBase(jpath, cur.pdf_canons[a]) /\ ~SameBase(jpath, cur.pdf_canons[b])
      THEN pdf_match = a
      ELSE pdf_match = b

\* C3 happens: the name is neither document's and the hash index gives B
C3_Witness ==
  \E a, b \in {1, 2} :
    /\ DeclaresSecondOfTwo(a, b)
    /\ ~SameBase(jpath, cur.pdf_canons[a])
    /\ ~SameBase(jpath, cur.pdf_canons[b])
    /\ pdf_match = b
    /\ ended = "appended"

\* ---------------------------------------------------------------- claim C4
\* C4: when an import run has finished, no composite slug is in two rows of
\* the mapping table nor in two lines of the line index, neither as
\* accumulated nor as written.
C4_OneRecordPerSlug ==
  (prog = "import" /\ pc = "exited") =>
    /\ UniqueSlugs(rows) /\ UniqueSlugs(index_lines)
    /\ UniqueSlugs(mapping) /\ UniqueSlugs(index)

\* ---------------------------------------------------------------- claim C5
\* what a turn of the loop decides: where it goes on, how it ended, the hash
\* declared, the document retained, the warnings, the records accumulated
Decisions(turn) ==
  <<turn.pc, turn.ended, turn.target, turn.pdf_match, turn.warnings, turn.rows,
    turn.index_lines>>

\* C5: from every state the loop over the receipts reaches, the turn decides
\* the same with and without dry-run, on every receipt; and a dry run on an
\* empty tree leaves it empty.
C5_DryRunEquivalent ==
  /\ (prog = "import" /\ pc = "receipts") =>
       \A c \in ReceiptPool :
         Decisions(Iteration(c, TRUE)) = Decisions(Iteration(c, FALSE))
  /\ (prog = "import" /\ dry) =>
       rootDirs = {} /\ byDoc = << >> /\ mapping = << >> /\ index = << >>

\* --------------------------------------------------------------- claim C10
\* C10: an import run is never aborted by a file that cannot be read.
C10_NeverAborts == prog = "import" => pc # "crashed"

\* ---------------------------------------------------------------- claim C6
\* the step that ends an import run
Completes == prog = "import" /\ pc = "folders" /\ pc' = "exited"

C7_SameSlugSets ==
  (prog = "import" /\ pc = "exited" /\ ~dry) =>
    /\ SlugsOf(mapping) = SlugsOf(index)
    /\ SlugsOf(mapping) = DOMAIN byDoc

\* C7 amended: after a non-dry import run that came to its end, the slugs of
\* the mapping table are those of the line index, and each of them names a
\* directory under by-doc that holds a proof record and a checksum line;
\* by-doc may hold more directories, left by earlier runs.
C7_SlugsHaveDirectories ==
  (prog = "import" /\ pc = "exited" /\ ~dry) =>
    /\ SlugsOf(mapping) = SlugsOf(index)
    /\ SlugsOf(mapping) \subseteq DOMAIN byDoc
    /\ \A slug \in SlugsOf(mapping) :
         byDoc[slug].proof # << >> /\ byDoc[slug].checksums # << >>

\* C7 happens: the files of a second run name fewer slugs than by-doc has
\* directories
C7_Witness ==
  /\ nrun = 2
  /\ prog = "import" /\ pc = "exited" /\ ~dry
  /\ mapping # << >>
  /\ mapping = rows
  /\ SlugsOf(mapping) \subseteq DOMAIN byDoc
  /\ SlugsOf(mapping) # DOMAIN byDoc

\* --------------------------------------------------------------- claim C11
\* the characters of the file names, in the order of their code points
CodePoints ==
  <<"-", ".", "0", "1", "2", "3", "4", "5", "6", "7", "8", "9",
    "A", "B", "C", "D", "E", "F", "G", "H", "I", "J", "K", "L", "M", "N", "O",
    "P", "Q", "R", "S", "T", "U", "V", "W", "X", "Y", "Z", "_",
    "a", "b", "c", "d", "e", "f", "g", "h", "i", "j", "k", "l", "m", "n", "o",
    "p", "q", "r", "s", "t", "u", "v", "w", "x", "y", "z">>

CodePoint(c) == CHOOSE i \in 1..Len(CodePoints) : CodePoints[i] = c

\* s <= t in the order of Python strings
RECURSIVE NameNotAfter(_, _)
NameNotAfter(s, t) ==
  IF s = << >> THEN TRUE
  ELSE IF t = << >> THEN FALSE
  ELSE IF Head(s) = Head(t) THEN NameNotAfter(Tail(s), Tail(t))
  ELSE CodePoint(Head(s)) < CodePoint(Head(t))

\* the documents of the folder that bear the normalized base of the receipt
\* of the last turn
Candidates == {i \in 1..Len(cur.pdf_canons) : SameBase(jpath, cur.pdf_canons[i])}

\* the last turn normalized a receipt whose base two documents or more bear
SeveralCandidates ==
  /\ prog = "import"
  /\ jpath # None
  /\ ended \in {"unmatched", "appended", "raised"}
  /\ Cardinality(Candidates) >= 2

\* the candidates whose computed hash is the one declared
CandidatesOfTarget ==
  {i \in Candidates : cur.pdf_canons[i].readable
                      /\ sha256_file(cur.pdf_canons[i]) = target}

\* the oldest candidate, the smallest name among those of the same age
IsOldest(c) ==
  /\ c \in Candidates
  /\ \A d \in Candidates :
       \/ cur.pdf_canons[c].mtime < cur.pdf_canons[d].mtime
       \/ /\ cur.pdf_canons[c].mtime = cur.pdf_canons[d].mtime
          /\ NameNotAfter(cur.pdf_canons[c].name, cur.pdf_canons[d].name)

\* C11 as stated: among several candidates that can all be hashed, a
\* well-formed declared hash selects the candidate that has it, and without
\* a well-formed hash the oldest candidate is selected, the smallest name
\* among equals.
C11_HashElseOldest ==
  (SeveralCandidates /\ \A i \in Candidates : cur.pdf_canons[i].readable) =>
    IF WellFormed(target)
    THEN pdf_match \in CandidatesOfTarget
    ELSE IsOldest(pdf_match)

\* C11 amended: among several candidates, a well-formed declared hash
\* selects the first candidate, in the order of the names, whose computed
\* hash equals it, when the candidates before it can be hashed; when the
\* candidates can be hashed and none has the declared hash, or when no
\* well-formed hash is declared, the oldest candidate is selected, the
\* smallest name among equals; when a candidate that cannot be hashed comes
\* before any with the declared hash, the run is aborted and nothing is
\* selected.
C11_HashIfFoundElseOldest ==
  SeveralCandidates =>
    LET blocked == {i \in Candidates : ~cur.pdf_canons[i].readable}
        reached == {i \in CandidatesOfTarget : \A b \in blocked : i < b}
    IN  IF ~WellFormed(target) THEN IsOldest(pdf_match)
        ELSE IF reached # {} THEN pdf_match = Min(reached)
        ELSE IF blocked # {} THEN pdf_match = 0 /\ ended = "raised"
        ELSE IsOldest(pdf_match)

\* C11 happens: the declared hash is well formed, no candidate has it, and
\* the oldest candidate is selected and recorded
C11_Witness ==
  /\ SeveralCandidates
  /\ WellFormed(target)
  /\ CandidatesOfTarget = {}
  /\ IsOldest(pdf_match)
  /\ ended = "appended"
  /\ \E d \in Candidates : cur.pdf_canons[d].mtime > cur.pdf_canons[pdf_match].mtime

\* --------------------------------------------------------------- claim C12
\* a step of the loop over the receipts
TakesReceipt == prog = "import" /\ pc = "receipts"

\* the receipt of the last turn was normalized, no document of the folder
\* bears its base and none has the hash it declares
NoDocumentFor ==
  /\ ended \in {"unmatched", "appended", "raised"}
  /\ Candidates = {}
  /\ ~(WellFormed(target) /\ \E i \in 1..Len(cur.pdf_canons) :
         DeclaresHashOf(cur.pdf_canons[i]))

\* seq with one element more at its end
GrownByOne(old, new) ==
  Len(new) = Len(old) + 1 /\ SubSeq(new, 1, Len(old)) = old

\* C12: within an import run every step of the loop takes the next receipt
\* of the folder, once, and the folders are taken in increasing order, none
\* twice; a receipt that no document matches ends unmatched, and the step
\* that ends unmatched leaves the records, the by-doc directories and the two
\* files as they were; a step appends at most one row and one line, at the
\* end of those already there, and only when its receipt came to the end.
C12_ForwardOnceUnmatchedExcluded ==
  /\ [](prog = "import" /\ NoDocumentFor => ended = "unmatched" /\ pdf_match = 0)
  /\ [][ /\ TakesReceipt =>
              /\ ji' = ji + 1 /\ ji <= Len(cur.jsons)
              /\ jpath' = cur.jsons[ji].name
              /\ cur' = cur /\ last' = last /\ nrun' = nrun
              /\ pc' \in {"receipts", "folders", "crashed"}
         /\ (prog = "import" /\ pc = "folders" /\ pc' \in {"folders", "receipts"}) =>
              last' > last /\ ji' = 1 /\ nrun' = nrun
         /\ (TakesReceipt /\ ended' = "unmatched") =>
              UNCHANGED <<rows, index_lines, byDoc, mapping, index>>
         /\ TakesReceipt =>
              \/ rows' = rows /\ index_lines' = index_lines /\ ended' # "appended"
              \/ /\ ended' = "appended"
                 /\ GrownByOne(rows, rows') /\ GrownByOne(index_lines, index_lines')
       ]_vars

\* C12 happens: the first receipt of a folder got its record, the second
\* ended unmatched: one row, one line, one directory
C12_Witness ==
  /\ prog = "import" /\ ~dry
  /\ scanned = 1
  /\ ji = 3
  /\ ended = "unmatched"
  /\ NoDocumentFor
  /\ Len(rows) = 1 /\ Len(index_lines) = 1
  /\ DOMAIN byDoc = {rows[1].slug}

\* --------------------------------------------------------------- claim C13
\* C13: in every directory of by-doc that an import wrote, the receipt annex
\* is the copy of, or the link to, the receipt that the note of the proof
\* record stored there names.
C13_AnnexIsReceiptOfRecord ==
  prog = "import" =>
    \A slug \in DOMAIN byDoc :
      (byDoc[slug].proof # << >> /\ byDoc[slug].receipt_json # << >>) =>
        /\ byDoc[slug].receipt_json[1] \in {"copy", "link"}
        /\ byDoc[slug].receipt_json[2] =
             StampedPath(byDoc[slug].proof[1].title, byDoc[slug].proof[1].notes)

====
